---- MODULE Spec2Model ----
(***************************************************************************)
(* Model of the TransactionCoordinator of                                  *)
(* decentralized-memory-marketplace/utils/transaction_coordinator.py, and  *)
(* of the EnhancedOwnershipManager (utils/ownership_manager.py) and the    *)
(* AdvancedEscrowManager (utils/escrow_manager.py) of the same package.    *)
(*                                                                         *)
(* The coordinator runs on one asyncio event loop: every action below is   *)
(* the code that runs between two points where a coroutine yields control  *)
(* (an await that suspends) or returns.  Transaction objects live in       *)
(* `transactions` (the heap, by id); active_transactions and               *)
(* transaction_history hold references to them, as the Python dict and     *)
(* list do.                                                                *)
(*                                                                         *)
(* A timestamp is not a clock value: updated_at counts the times the field *)
(* was stamped, completed_at and a step's timestamp are None or "set".     *)
(* A step handler (simulate_step_execution, to be replaced by a call to an *)
(* agent) returns a result or raises.                                      *)
(***************************************************************************)
EXTENDS Integers, Sequences, FiniteSets, TLC

\* Number of transactions ever initiated in one run of the model.
MaxTx == 2

TxIds == 1..MaxTx

\* Number of writes of transaction_data.json that fail in one run of the model.
MaxWriteFailures == 1

\* Number of iterations of the loop of process_transaction that one task is
\* followed for.
MaxIters == 8

\* Reasons a caller passes to cancel_transaction.
Reasons == {"user requested"}

None == "None"

---------------------------------------------------------------------------
\* TransactionStatus / TransactionType enum members and their .value strings

PENDING == "PENDING"
APPROVED == "APPROVED"
EXECUTING == "EXECUTING"
COMPLETED == "COMPLETED"
FAILED == "FAILED"
CANCELLED == "CANCELLED"

TransactionStatus == {PENDING, APPROVED, EXECUTING, COMPLETED, FAILED, CANCELLED}

StatusValue(s) ==
    CASE s = PENDING -> "pending"
      [] s = APPROVED -> "approved"
      [] s = EXECUTING -> "executing"
      [] s = COMPLETED -> "completed"
      [] s = FAILED -> "failed"
      [] s = CANCELLED -> "cancelled"

NFT_PURCHASE == "NFT_PURCHASE"
NFT_LISTING == "NFT_LISTING"
BATCH_OPERATION == "BATCH_OPERATION"

TypeValue(ty) ==
    CASE ty = NFT_PURCHASE -> "nft_purchase"
      [] ty = NFT_LISTING -> "nft_listing"
      [] ty = BATCH_OPERATION -> "batch_operation"

---------------------------------------------------------------------------
\* Steps and plans.  A step id f"{transaction_id}_step_{k}" is the index k of
\* the step in its transaction; dependencies are sets of such indices.

TransactionStep(action, dependencies) ==
    [action |-> action, status |-> PENDING, result |-> None,
     error_message |-> None, timestamp |-> None, dependencies |-> dependencies]

\* A purchase plan whose transfer waits for nothing.
PurchaseSteps_TransferFree ==
    << TransactionStep("verify_valuation", {}),
       TransactionStep("verify_authenticity", {}),
       TransactionStep("setup_escrow", {1, 2}),
       TransactionStep("execute_transfer", {}),
       TransactionStep("finalize_transaction", {4}) >>

\* A listing plan whose create_listing waits for itself too.
ListingSteps_SelfDependent ==
    << TransactionStep("verify_ownership", {}),
       TransactionStep("market_valuation", {}),
       TransactionStep("create_listing", {1, 2, 3}) >>

\* A listing plan whose create_listing waits for the ownership check only.
ListingSteps_OwnershipOnly ==
    << TransactionStep("verify_ownership", {}),
       TransactionStep("market_valuation", {}),
       TransactionStep("create_listing", {1}) >>

PurchaseSteps ==
    << TransactionStep("verify_valuation", {}),
       TransactionStep("verify_authenticity", {}),
       TransactionStep("setup_escrow", {1, 2}),
       TransactionStep("execute_transfer", {3}),
       TransactionStep("finalize_transaction", {4}) >>

ListingSteps ==
    << TransactionStep("verify_ownership", {}),
       TransactionStep("market_valuation", {}),
       TransactionStep("create_listing", {1, 2}) >>

\* A transaction that is created executing.
Transaction_Executing(type, steps) ==
    [transaction_type |-> type, steps |-> steps, status |-> EXECUTING,
     metadata |-> [cancellation_reason |-> None],
     updated_at |-> 0, completed_at |-> None]

Transaction(type, steps) ==
    [transaction_type |-> type, steps |-> steps, status |-> PENDING,
     metadata |-> [cancellation_reason |-> None],
     updated_at |-> 0, completed_at |-> None]

---------------------------------------------------------------------------
VARIABLES
    transactions,         \* heap: id -> Transaction object
    active_transactions,  \* keys of the active_transactions dict
    transaction_history,  \* list of (references to) transactions, by id
    disk,                 \* content of transaction_data.json
    write_failures,       \* number of writes of the file that failed so far
    pc,                   \* position of each process_transaction task
    ready_steps,          \* process_transaction's local: the batch being executed
    tasks,                \* the simulate_step_execution tasks of the batch
    ret,                  \* the caller-facing call made in this step and its return
    iters,                \* number of iterations of the while loop, per task
    invoked               \* number of times each step's handler was started

\* State of the EnhancedOwnershipManager.
VARIABLES
    ownership_records,    \* token_id -> OwnershipRecord
    active_transfers,     \* transfer_id -> TransferAgreement
    transfer_history,     \* list of TransferAgreement
    atomic_swap_pairs,    \* swap_id -> [transfer_id1, transfer_id2]
    ownership_data        \* content of ownership_data.json

\* State of the AdvancedEscrowManager, and the clock it reads.
VARIABLES
    active_escrows,       \* escrow_id -> EscrowAgreement
    escrow_history,       \* list of EscrowAgreement
    escrow_data,          \* content of escrow_data.json
    current_time          \* datetime.now(timezone.utc), in hours

vars == << transactions, active_transactions, transaction_history, disk,
           write_failures, pc,
           ready_steps, tasks, ret, iters, invoked >>

NoTasks == [result |-> << >>, order |-> << >>]

\* No caller-facing call returned in this step.
NoRet == [op |-> "none", args |-> << >>, value |-> None]

ownership_vars == << ownership_records, active_transfers, transfer_history,
                     atomic_swap_pairs, ownership_data >>

escrow_vars == << active_escrows, escrow_history, escrow_data, current_time >>

\* The variables of the coordinator other than the call of the step.
coordinator_vars == << transactions, active_transactions, transaction_history,
                       disk, write_failures, pc, ready_steps, tasks, iters,
                       invoked >>

Init ==
    /\ transactions = << >>
    /\ active_transactions = {}
    /\ transaction_history = << >>
    /\ disk = << >>
    /\ write_failures = 0
    /\ pc = [t \in TxIds |-> "none"]
    /\ ready_steps = [t \in TxIds |-> << >>]
    /\ tasks = [t \in TxIds |-> NoTasks]
    /\ ret = NoRet
    /\ iters = [t \in TxIds |-> 0]
    /\ invoked = [t \in TxIds |-> [i \in 1..5 |-> 0]]
    /\ ownership_records = << >>
    /\ active_transfers = << >>
    /\ transfer_history = << >>
    /\ atomic_swap_pairs = << >>
    /\ ownership_data = << >>
    /\ active_escrows = << >>
    /\ escrow_history = << >>
    /\ escrow_data = << >>
    /\ current_time = 0

---------------------------------------------------------------------------
\* Persistence: _save_transaction_data writes every transaction, active ones
\* first (dict order = insertion order = ascending id), then the history.

SerializeStep(step) == [step EXCEPT !.status = StatusValue(@)]

SerializeTransaction(t, tx) ==
    [transaction_id |-> t,
     transaction_type |-> TypeValue(tx.transaction_type),
     status |-> StatusValue(tx.status),
     steps |-> [i \in DOMAIN tx.steps |-> SerializeStep(tx.steps[i])],
     metadata |-> tx.metadata,
     updated_at |-> tx.updated_at,
     completed_at |-> tx.completed_at]

ActiveValues(act) == SelectSeq([i \in 1..MaxTx |-> i], LAMBDA i : i \in act)

Snapshot(trs, act, hist) ==
    LET all_transactions == ActiveValues(act) \o hist
    IN [k \in DOMAIN all_transactions |->
            SerializeTransaction(all_transactions[k], trs[all_transactions[k]])]

\* Lines 141-146.  The write succeeds, or open() raises and the file keeps
\* its content, or json.dump raises after open(..., 'w') has emptied the
\* file: what is left of it is not a JSON document, and a coordinator that
\* reads it starts empty (lines 116-118), as from an empty file.  The
\* exception is caught and logged.
SaveTransactionData(trs, act, hist) ==
    \E outcome \in {"written", "open raised", "dump raised"} :
        IF outcome = "written"
        THEN /\ disk' = Snapshot(trs, act, hist)
             /\ UNCHANGED write_failures
        ELSE /\ write_failures < MaxWriteFailures
             /\ write_failures' = write_failures + 1
             /\ disk' = IF outcome = "open raised" THEN disk ELSE << >>

---------------------------------------------------------------------------
\* Transaction.get_next_pending_steps: the pending steps whose dependencies
\* are all completed, in step order.

CompletedStepIds(tx) == {i \in DOMAIN tx.steps : tx.steps[i].status = COMPLETED}

\* A ready set that takes one completed dependency for all of them.
GetNextPendingSteps_AnyDependency(tx) ==
    SelectSeq([i \in DOMAIN tx.steps |-> i],
              LAMBDA i : /\ tx.steps[i].status = PENDING
                         /\ \/ tx.steps[i].dependencies = {}
                            \/ \E dep_id \in tx.steps[i].dependencies :
                                    dep_id \in CompletedStepIds(tx))

\* A ready set that takes a failed step for pending again.
GetNextPendingSteps_RetryFailed(tx) ==
    SelectSeq([i \in DOMAIN tx.steps |-> i],
              LAMBDA i : /\ tx.steps[i].status \in {PENDING, FAILED}
                         /\ \A dep_id \in tx.steps[i].dependencies :
                                dep_id \in CompletedStepIds(tx))

GetNextPendingSteps(tx) ==
    SelectSeq([i \in DOMAIN tx.steps |-> i],
              LAMBDA i : /\ tx.steps[i].status = PENDING
                         /\ \A dep_id \in tx.steps[i].dependencies :
                                dep_id \in CompletedStepIds(tx))

\* process_transaction, lines 352-353
CompletedSteps(tx) == {i \in DOMAIN tx.steps : tx.steps[i].status = COMPLETED}

FailedSteps(tx) == {i \in DOMAIN tx.steps : tx.steps[i].status = FAILED}

---------------------------------------------------------------------------
\* initiate_nft_purchase / initiate_nft_listing: build the plan, register the
\* transaction, save, schedule process_transaction, return the id.  Neither
\* coroutine suspends, so each is one step.  uuid4 gives an unused id.

FreshId(t) == /\ t \notin DOMAIN transactions
              /\ \A u \in TxIds : u < t => u \in DOMAIN transactions

Register(t, transaction) ==
    /\ FreshId(t)
    /\ transactions' = (t :> transaction) @@ transactions
    /\ active_transactions' = active_transactions \cup {t}
    /\ SaveTransactionData(transactions', active_transactions', transaction_history)
    /\ pc' = [pc EXCEPT ![t] = "scheduled"]
    /\ ret' = [op |-> "initiate", args |-> << >>, value |-> t]
    /\ UNCHANGED << transaction_history, ready_steps, tasks, iters, invoked >>

initiate_nft_purchase(t) == Register(t, Transaction(NFT_PURCHASE, PurchaseSteps))

initiate_nft_listing(t) == Register(t, Transaction(NFT_LISTING, ListingSteps))

\* Plans that no initiate_* builds but that Transaction and TransactionStep
\* accept and process_transaction runs as any other: nothing checks the
\* dependencies of a step.  Two steps waiting for each other, and a step
\* waiting for a step that does not exist, next to a step that is free.
CyclicSteps ==
    << TransactionStep("first", {2}),
       TransactionStep("second", {1}) >>

DanglingSteps ==
    << TransactionStep("first", {}),
       TransactionStep("second", {3}) >>

CustomPlans == {CyclicSteps, DanglingSteps}

\* A caller registers and schedules a transaction with such a plan, as
\* initiate_nft_purchase does with its own (lines 244-256).
initiate_custom(t, steps) == Register(t, Transaction(BATCH_OPERATION, steps))

---------------------------------------------------------------------------
\* process_transaction.  pc values of a task:
\*   "none"       no task (the transaction does not exist yet, or was restored
\*                from the file by _load_transaction_data)
\*   "scheduled"  created by asyncio.create_task, not yet run
\*   "gather"     suspended in execute_transaction_steps at asyncio.gather
\*   "pause"      suspended at asyncio.sleep(0.5), line 375
\*   "wait"       suspended at asyncio.sleep(1), line 366
\*   "done"       returned

\* Lines 377-386, with the transaction object as the loop left it.  del of a
\* key that is not in the dict raises KeyError, which the except clause turns
\* into status FAILED.
AfterLoop(t, tx) ==
    /\ pc' = [pc EXCEPT ![t] = "done"]
    /\ IF tx.status \in {COMPLETED, FAILED}
       THEN IF t \in active_transactions
            THEN /\ transactions' = [transactions EXCEPT ![t] = tx]
                 /\ transaction_history' = Append(transaction_history, t)
                 /\ active_transactions' = active_transactions \ {t}
                 /\ SaveTransactionData(transactions', active_transactions',
                                        transaction_history')
            ELSE /\ transactions' =
                        [transactions EXCEPT
                            ![t] = [tx EXCEPT !.status = FAILED,
                                              !.updated_at = @ + 1]]
                 /\ transaction_history' = Append(transaction_history, t)
                 /\ UNCHANGED << active_transactions, disk, write_failures >>
       ELSE /\ transactions' = [transactions EXCEPT ![t] = tx]
            /\ UNCHANGED << active_transactions, transaction_history, disk,
                            write_failures >>
    /\ UNCHANGED << ready_steps, tasks, invoked >>

\* execute_transaction_steps, lines 392-398: one task per ready step, then
\* suspend in gather.  A created task has not started running yet.
CreateTasks(ready) ==
    [result |-> [k \in DOMAIN ready |-> "created"], order |-> << >>]

\* A terminal check that forgets the failed steps.
TerminalStatus_IgnoreFailed(tx) ==
    IF CompletedSteps(tx) # {} THEN COMPLETED ELSE EXECUTING

\* A terminal check that does not look for failed steps.
TerminalStatus_NoFailedCheck(tx) ==
    IF Cardinality(CompletedSteps(tx)) = Len(tx.steps)
    THEN COMPLETED
    ELSE EXECUTING

\* Lines 352-367, the ready set being empty: the status the transaction
\* takes, EXECUTING when the loop only waits and re-checks.
TerminalStatus(tx) ==
    IF FailedSteps(tx) # {}
    THEN FAILED
    ELSE IF Cardinality(CompletedSteps(tx)) = Len(tx.steps)
         THEN COMPLETED
         ELSE EXECUTING

\* Lines 346-375: from the loop condition to the next suspension or return.
LoopHead(t, tx) ==
    IF tx.status # EXECUTING
    THEN AfterLoop(t, tx) /\ UNCHANGED iters
    ELSE /\ iters[t] < MaxIters
         /\ iters' = [iters EXCEPT ![t] = @ + 1]
         /\ LET ready == GetNextPendingSteps(tx)
            IN IF ready = << >>
               THEN IF TerminalStatus(tx) = FAILED
                    THEN AfterLoop(t, [tx EXCEPT !.status = FAILED])
                    ELSE IF TerminalStatus(tx) = COMPLETED
                    THEN AfterLoop(t, [tx EXCEPT !.status = COMPLETED,
                                                 !.completed_at = "set"])
                    ELSE /\ pc' = [pc EXCEPT ![t] = "wait"]
                         /\ transactions' = [transactions EXCEPT ![t] = tx]
                         /\ UNCHANGED << active_transactions, transaction_history,
                                         disk, write_failures, ready_steps,
                                         tasks, invoked >>
               ELSE /\ pc' = [pc EXCEPT ![t] = "gather"]
                    /\ transactions' = [transactions EXCEPT ![t] = tx]
                    /\ ready_steps' = [ready_steps EXCEPT ![t] = ready]
                    /\ tasks' = [tasks EXCEPT ![t] = CreateTasks(ready)]
                    /\ UNCHANGED << active_transactions, transaction_history,
                                    disk, write_failures, invoked >>

\* Lines 335-341, then the loop.
process_transaction(t) ==
    /\ pc[t] = "scheduled"
    /\ ret' = NoRet
    /\ IF t \notin active_transactions
       THEN /\ pc' = [pc EXCEPT ![t] = "done"]
            /\ UNCHANGED << transactions, active_transactions, transaction_history,
                            disk, write_failures, ready_steps, tasks, iters,
                            invoked >>
       ELSE LoopHead(t, [transactions[t] EXCEPT !.status = EXECUTING,
                                                !.updated_at = @ + 1])

\* A task of the batch starts running simulate_step_execution (the handler of
\* its step) and suspends in it.
simulate_step_execution(t, k) ==
    /\ pc[t] = "gather"
    /\ k \in DOMAIN tasks[t].result
    /\ tasks[t].result[k] = "created"
    /\ tasks' = [tasks EXCEPT ![t].result[k] = "running"]
    /\ invoked' = [invoked EXCEPT ![t][ready_steps[t][k]] = @ + 1]
    /\ ret' = NoRet
    /\ UNCHANGED << transactions, active_transactions, transaction_history, disk,
                    write_failures, pc, ready_steps, iters >>

\* The handler returns a result ("ok") or raises ("raise"); the task is done.
\* order lists the tasks of the batch in the order in which they finished.
FinishTask(task, k, outcome) ==
    [result |-> [task.result EXCEPT ![k] = outcome],
     order |-> Append(task.order, k)]

simulate_step_return(t, k, outcome) ==
    /\ pc[t] = "gather"
    /\ k \in DOMAIN tasks[t].result
    /\ tasks[t].result[k] = "running"
    /\ tasks' = [tasks EXCEPT ![t] = FinishTask(@, k, outcome)]
    /\ ret' = NoRet
    /\ UNCHANGED << transactions, active_transactions, transaction_history, disk,
                    write_failures, pc, ready_steps, iters, invoked >>

AllDone(task) == \A k \in DOMAIN task.result : task.result[k] \in {"ok", "raise"}

\* The results in the order in which the tasks finished.
Gather_AsCompleted(task) == [k \in DOMAIN task.result |-> task.result[task.order[k]]]

\* asyncio.gather(*tasks, return_exceptions=True): the results in the order of
\* the tasks passed, whatever the order in which they finished.
Gather(task) == [k \in DOMAIN task.result |-> task.result[k]]

\* An update that does not look for exceptions among the results.
UpdateStepStatuses_AlwaysCompleted(tx, steps, results) ==
    [tx EXCEPT !.steps =
        [i \in DOMAIN tx.steps |->
            IF \E k \in DOMAIN steps : steps[k] = i
            THEN [tx.steps[i] EXCEPT !.status = COMPLETED,
                                     !.result = "result",
                                     !.timestamp = "set"]
            ELSE tx.steps[i]]]

\* An update that fails the whole batch when one handler raised.
UpdateStepStatuses_FailsBatch(tx, steps, results) ==
    [tx EXCEPT !.steps =
        [i \in DOMAIN tx.steps |->
            IF \E k \in DOMAIN steps : steps[k] = i
            THEN IF \E k \in DOMAIN results : results[k] = "raise"
                 THEN [tx.steps[i] EXCEPT !.status = FAILED,
                                          !.error_message = "error"]
                 ELSE [tx.steps[i] EXCEPT !.status = COMPLETED,
                                          !.result = "result",
                                          !.timestamp = "set"]
            ELSE tx.steps[i]]]

\* Lines 401-410: zip(steps, results)
UpdateStepStatuses(tx, steps, results) ==
    [tx EXCEPT !.steps =
        [i \in DOMAIN tx.steps |->
            IF \E k \in DOMAIN steps : steps[k] = i
            THEN LET k == CHOOSE k \in DOMAIN steps : steps[k] = i
                 IN IF results[k] = "raise"
                    THEN [tx.steps[i] EXCEPT !.status = FAILED,
                                             !.error_message = "error"]
                    ELSE [tx.steps[i] EXCEPT !.status = COMPLETED,
                                             !.result = "result",
                                             !.timestamp = "set"]
            ELSE tx.steps[i]]]

\* An update that finds the steps of the batch by their number alone, in
\* every transaction.
execute_transaction_steps_AnyTransaction(t) ==
    /\ pc[t] = "gather"
    /\ AllDone(tasks[t])
    /\ transactions' =
           [u \in DOMAIN transactions |->
               IF u = t
               THEN [UpdateStepStatuses(transactions[u], ready_steps[t],
                                        Gather(tasks[t]))
                        EXCEPT !.updated_at = @ + 1]
               ELSE UpdateStepStatuses(transactions[u], ready_steps[t],
                                       Gather(tasks[t]))]
    /\ SaveTransactionData(transactions', active_transactions, transaction_history)
    /\ pc' = [pc EXCEPT ![t] = "pause"]
    /\ ready_steps' = [ready_steps EXCEPT ![t] = << >>]
    /\ tasks' = [tasks EXCEPT ![t] = NoTasks]
    /\ ret' = NoRet
    /\ UNCHANGED << active_transactions, transaction_history, iters, invoked >>

\* gather returns: execute_transaction_steps updates the steps of the batch
\* and returns to process_transaction, lines 372-375.
execute_transaction_steps(t) ==
    /\ pc[t] = "gather"
    /\ AllDone(tasks[t])
    /\ transactions' =
           [transactions EXCEPT
               ![t] = [UpdateStepStatuses(@, ready_steps[t], Gather(tasks[t]))
                           EXCEPT !.updated_at = @ + 1]]
    /\ SaveTransactionData(transactions', active_transactions, transaction_history)
    /\ pc' = [pc EXCEPT ![t] = "pause"]
    /\ ready_steps' = [ready_steps EXCEPT ![t] = << >>]
    /\ tasks' = [tasks EXCEPT ![t] = NoTasks]
    /\ ret' = NoRet
    /\ UNCHANGED << active_transactions, transaction_history, iters, invoked >>

\* asyncio.sleep returns (line 375 or line 366): back to the loop condition.
process_transaction_resume(t) ==
    /\ pc[t] \in {"pause", "wait"}
    /\ ret' = NoRet
    /\ LoopHead(t, transactions[t])

---------------------------------------------------------------------------
\* cancel_transaction never suspends: one step.

\* A refusal that looks the transaction up wherever it is and forgets that a
\* cancelled transaction is terminal too.
CancelRefused_StatusOnly(t) ==
    \/ t \notin DOMAIN transactions
    \/ transactions[t].status \in {COMPLETED, FAILED}

\* Lines 506-512
CancelRefused(t) ==
    \/ t \notin active_transactions
    \/ transactions[t].status \in {COMPLETED, FAILED}

\* A cancel that marks the transaction failed.
CancelledTransaction_AsFailed(tx, reason) ==
    [tx EXCEPT !.status = FAILED,
               !.updated_at = @ + 1,
               !.metadata = [cancellation_reason |-> reason]]

\* A cancel that does not record the reason.
CancelledTransaction_NoReason(tx, reason) ==
    [tx EXCEPT !.status = CANCELLED,
               !.updated_at = @ + 1]

\* A cancel that records the reason and leaves the status as it is.
CancelledTransaction_StatusKept(tx, reason) ==
    [tx EXCEPT !.updated_at = @ + 1,
               !.metadata = [cancellation_reason |-> reason]]

\* Lines 514-516
CancelledTransaction(tx, reason) ==
    [tx EXCEPT !.status = CANCELLED,
               !.updated_at = @ + 1,
               !.metadata = [cancellation_reason |-> reason]]

cancel_transaction(t, reason) ==
    IF CancelRefused(t)
    THEN /\ ret' = [op |-> "cancel", args |-> << t, reason >>, value |-> FALSE]
         /\ UNCHANGED << transactions, active_transactions, transaction_history,
                         disk, write_failures, pc, ready_steps, tasks, iters,
                         invoked >>
    ELSE /\ transactions' =
                [transactions EXCEPT ![t] = CancelledTransaction(@, reason)]
         /\ transaction_history' = Append(transaction_history, t)
         /\ active_transactions' = active_transactions \ {t}
         /\ SaveTransactionData(transactions', active_transactions',
                                transaction_history')
         /\ ret' = [op |-> "cancel", args |-> << t, reason >>, value |-> TRUE]
         /\ UNCHANGED << pc, ready_steps, tasks, iters, invoked >>

---------------------------------------------------------------------------
\* get_transaction_status: a pure read.

\* A lookup that forgets the active transactions.
Lookup_HistoryOnly(transaction_id) ==
    {transaction_history[k] : k \in
        {j \in DOMAIN transaction_history :
              transaction_history[j] = transaction_id}}

\* A lookup that forgets the history.
Lookup_ActiveOnly(transaction_id) ==
    IF transaction_id \in active_transactions THEN {transaction_id} ELSE {}

\* Lines 467-472: the transaction found, as a set of at most one id ({} for
\* Python's None).
Lookup(transaction_id) ==
    IF transaction_id \in active_transactions
    THEN {transaction_id}
    ELSE {transaction_history[k] : k \in
              {j \in DOMAIN transaction_history :
                    transaction_history[j] = transaction_id}}

Progress(completed_steps, total_steps) ==
    ToString(completed_steps) \o "/" \o ToString(total_steps)

get_transaction_status(transaction_id) ==
    IF Lookup(transaction_id) = {}
    THEN [found |-> FALSE]
    ELSE LET tx == transactions[transaction_id]
         IN [found |-> TRUE,
             transaction_id |-> transaction_id,
             type |-> TypeValue(tx.transaction_type),
             status |-> StatusValue(tx.status),
             progress |-> Progress(Cardinality(CompletedSteps(tx)), Len(tx.steps)),
             updated_at |-> tx.updated_at,
             completed_at |-> tx.completed_at,
             next_steps |-> GetNextPendingSteps(tx)]

\* A caller awaits get_transaction_status(transaction_id): the coroutine
\* never suspends and assigns to nothing but its locals.
get_transaction_status_call(transaction_id) ==
    /\ ret' = [op |-> "get_transaction_status",
               args |-> << transaction_id >>,
               value |-> get_transaction_status(transaction_id)]
    /\ UNCHANGED << transactions, active_transactions, transaction_history,
                    disk, write_failures, pc, ready_steps, tasks, iters,
                    invoked >>

---------------------------------------------------------------------------
\* _load_transaction_data: the constructor of a new coordinator reads
\* transaction_data.json back.

\* A lookup that takes "executing" for the first member.
ParseStatus_ExecutingAsPending(value) ==
    CASE value = "pending" -> PENDING
      [] value = "approved" -> APPROVED
      [] value = "executing" -> PENDING
      [] value = "completed" -> COMPLETED
      [] value = "failed" -> FAILED
      [] value = "cancelled" -> CANCELLED

\* TransactionStatus(value) / TransactionType(value): the member with that value
ParseStatus(value) ==
    CASE value = "pending" -> PENDING
      [] value = "approved" -> APPROVED
      [] value = "executing" -> EXECUTING
      [] value = "completed" -> COMPLETED
      [] value = "failed" -> FAILED
      [] value = "cancelled" -> CANCELLED

ParseType(value) ==
    CASE value = "nft_purchase" -> NFT_PURCHASE
      [] value = "nft_listing" -> NFT_LISTING
      [] value = "batch_operation" -> BATCH_OPERATION

ParseStep(step_data) == [step_data EXCEPT !.status = ParseStatus(@)]

ParseTransaction(tx_data) ==
    [transaction_type |-> ParseType(tx_data.transaction_type),
     steps |-> [i \in DOMAIN tx_data.steps |-> ParseStep(tx_data.steps[i])],
     status |-> ParseStatus(tx_data.status),
     metadata |-> tx_data.metadata,
     updated_at |-> tx_data.updated_at,
     completed_at |-> tx_data.completed_at]

\* A load that takes only pending transactions for active.
RestoredActive_PendingOnly(tx) == tx.status = PENDING

\* Line 108
RestoredActive(tx) == tx.status \in {PENDING, EXECUTING}

\* Lines 95-112: the transactions of the file in file order, each one put in
\* the active dict or appended to the history by its status.  An id read
\* twice keeps its last object.
LoadTransactionData(data) ==
    LET ids == {data[k].transaction_id : k \in DOMAIN data}
        last(t) == CHOOSE k \in DOMAIN data :
                      /\ data[k].transaction_id = t
                      /\ \A j \in DOMAIN data :
                            data[j].transaction_id = t => j <= k
        restored == [k \in DOMAIN data |-> ParseTransaction(data[k])]
        kept == SelectSeq([k \in DOMAIN data |-> k],
                          LAMBDA k : ~RestoredActive(restored[k]))
    IN [transactions |-> [t \in ids |-> restored[last(t)]],
        active_transactions |->
            {data[k].transaction_id :
                k \in {j \in DOMAIN data : RestoredActive(restored[j])}},
        transaction_history |->
            [k \in DOMAIN kept |-> data[kept[k]].transaction_id]]

\* The process ends, whatever its tasks are doing, and a new coordinator is
\* constructed: __init__ starts from the content of the file.  No task exists
\* in the new process; nothing schedules process_transaction for a restored
\* transaction.
Restart ==
    /\ \E loaded \in {LoadTransactionData(disk)} :
          /\ transactions' = loaded.transactions
          /\ active_transactions' = loaded.active_transactions
          /\ transaction_history' = loaded.transaction_history
          /\ invoked' = [t \in TxIds |->
                            IF t \in DOMAIN loaded.transactions
                            THEN invoked[t]
                            ELSE [i \in 1..5 |-> 0]]
    /\ pc' = [t \in TxIds |-> "none"]
    /\ ready_steps' = [t \in TxIds |-> << >>]
    /\ tasks' = [t \in TxIds |-> NoTasks]
    /\ iters' = [t \in TxIds |-> 0]
    /\ ret' = NoRet
    /\ UNCHANGED << disk, write_failures >>
    /\ UNCHANGED << ownership_vars, escrow_vars >>

---------------------------------------------------------------------------
\* The steps of the event loop that belong to the process_transaction task of
\* transaction t and to the handler tasks it created.
TaskStep(t) ==
    /\ \/ process_transaction(t)
       \/ \E k \in DOMAIN tasks[t].result : simulate_step_execution(t, k)
       \/ \E k \in DOMAIN tasks[t].result, outcome \in {"ok", "raise"} :
               simulate_step_return(t, k, outcome)
       \/ execute_transaction_steps(t)
       \/ process_transaction_resume(t)
    /\ UNCHANGED << ownership_vars, escrow_vars >>

Initiate ==
    /\ \/ \E t \in TxIds : initiate_nft_purchase(t)
       \/ \E t \in TxIds : initiate_nft_listing(t)
    /\ UNCHANGED << ownership_vars, escrow_vars >>

Cancel ==
    /\ \E t \in TxIds, reason \in Reasons : cancel_transaction(t, reason)
    /\ UNCHANGED << ownership_vars, escrow_vars >>

Next ==
    \/ Initiate
    \/ \E t \in TxIds : TaskStep(t)
    \/ Cancel

Spec == Init /\ [][Next]_vars

\* The same coordinator when no caller cancels.  The event loop runs a task
\* that is ready, a sleep ends, and a handler returns or raises: the tasks
\* of a transaction do not stay ready forever without one of them running.
NextNoCancel ==
    \/ Initiate
    \/ \E t \in TxIds : TaskStep(t)

Fairness == \A t \in TxIds : WF_vars(TaskStep(t))

FairNoCancel == Init /\ [][NextNoCancel]_vars /\ Fairness

\* The coordinator over several runs of the process: the file outlives the
\* process, which may end at any await and be started again.
NextRestart ==
    \/ Next
    \/ Restart

SpecRestart == Init /\ [][NextRestart]_vars

\* The same with the event loop running the tasks that are ready.
FairRestart == SpecRestart /\ Fairness

\* Two transactions side by side.  The tasks of the transactions created
\* first may stop for ever (a handler that never returns) and callers may
\* cancel these transactions; the tasks of the transaction created last run
\* when they are ready and its handlers return or raise.
CancelOthers ==
    /\ \E t \in TxIds \ {MaxTx}, reason \in Reasons :
            cancel_transaction(t, reason)
    /\ UNCHANGED << ownership_vars, escrow_vars >>

NextIsolation ==
    \/ Initiate
    \/ \E t \in TxIds : TaskStep(t)
    \/ CancelOthers

FairIsolation == Init /\ [][NextIsolation]_vars /\ WF_vars(TaskStep(MaxTx))

\* The coordinator with callers that also hand it plans of their own.
InitiateCustom ==
    /\ \E t \in TxIds, steps \in CustomPlans : initiate_custom(t, steps)
    /\ UNCHANGED << ownership_vars, escrow_vars >>

NextPlans ==
    \/ Next
    \/ InitiateCustom

SpecPlans == Init /\ [][NextPlans]_vars

\* The same transactions with callers that ask for the status of any id.
GetStatus ==
    /\ \E t \in TxIds : get_transaction_status_call(t)
    /\ UNCHANGED << ownership_vars, escrow_vars >>

NextLookup ==
    \/ NextIsolation
    \/ GetStatus

SpecLookup == Init /\ [][NextLookup]_vars

---------------------------------------------------------------------------
\* EnhancedOwnershipManager (utils/ownership_manager.py).  The coroutines of
\* the manager await nothing but one another and never suspend: a call runs
\* to its return in one step.  The operators below take the manager (`self`)
\* as a record of its fields and give the manager after the call and the
\* value returned; `saved` lists the snapshots the call wrote with
\* _save_ownership_data, whose writes succeed here.  Timestamps and hashes
\* are left out: executed_at is None or "set".

\* Number of transfers and of atomic swaps initiated in one run of the model.
MaxTransfers == 3

MaxSwaps == 1

TransferIds == 1..MaxTransfers

SwapIds == 1..MaxSwaps

Tokens == {"memory_001", "memory_002"}

Addresses == {"0xowner1", "0xowner2"}

Creators == {"0xcreator"}

TransferValues == {"250.0"}

INITIATED == "INITIATED"
VERIFIED == "VERIFIED"

TransferStatusValue(s) ==
    CASE s = INITIATED -> "initiated"
      [] s = VERIFIED -> "verified"
      [] s = EXECUTING -> "executing"
      [] s = COMPLETED -> "completed"
      [] s = FAILED -> "failed"
      [] s = CANCELLED -> "cancelled"

DIRECT_TRANSFER == "DIRECT_TRANSFER"
ATOMIC_SWAP == "ATOMIC_SWAP"

TransferTypeValue(ty) ==
    CASE ty = DIRECT_TRANSFER -> "direct_transfer"
      [] ty = ATOMIC_SWAP -> "atomic_swap"

OwnershipRecord(token_id, current_owner, original_creator) ==
    [token_id |-> token_id, current_owner |-> current_owner,
     previous_owner |-> None, original_creator |-> original_creator,
     transfer_history |-> << >>]

NoConditions ==
    [atomic_swap_id |-> None, counterpart_nft |-> None,
     cancellation_reason |-> None]

SwapConditions(swap_id, counterpart_nft) ==
    [atomic_swap_id |-> swap_id, counterpart_nft |-> counterpart_nft,
     cancellation_reason |-> None]

TransferAgreement(transfer_id, transfer_type, token_id, from_address, to_address, transfer_value, conditions) ==
    [transfer_id |-> transfer_id, transfer_type |-> transfer_type,
     nft_token_id |-> token_id, from_address |-> from_address,
     to_address |-> to_address, transfer_value |-> transfer_value,
     status |-> INITIATED, executed_at |-> None, conditions |-> conditions]

\* The manager as the methods see it.
OwnershipManager ==
    [ownership_records |-> ownership_records,
     active_transfers |-> active_transfers,
     transfer_history |-> transfer_history,
     atomic_swap_pairs |-> atomic_swap_pairs,
     saved |-> << >>]

Failure(error) == [success |-> FALSE, error |-> error]

Remove(dict, key) == [k \in DOMAIN dict \ {key} |-> dict[k]]

SerializeTransfer(transfer) ==
    [transfer EXCEPT !.transfer_type = TransferTypeValue(@),
                     !.status = TransferStatusValue(@)]

\* Lines 114-137.  The list of active transfers is in the order of the dict,
\* which is the order of the transfer ids.
OwnershipSnapshot(self) ==
    [ownership_records |-> self.ownership_records,
     active_transfers |->
         [id \in DOMAIN self.active_transfers |->
             SerializeTransfer(self.active_transfers[id])],
     transfer_history |->
         [i \in DOMAIN self.transfer_history |->
             SerializeTransfer(self.transfer_history[i])],
     atomic_swap_pairs |-> self.atomic_swap_pairs]

SaveOwnershipData(self) ==
    [self EXCEPT !.saved = Append(@, OwnershipSnapshot(self))]

\* The file after a call, when its writes succeed: the last snapshot the call
\* saved.
OwnershipDataAfter(self) ==
    IF self.saved = << >> THEN ownership_data ELSE self.saved[Len(self.saved)]

register_nft_ownership(self, token_id, owner_address, creator_address) ==
    IF token_id \in DOMAIN self.ownership_records
    THEN [self |-> self,
          result |-> Failure("NFT ownership already registered")]
    ELSE [self |-> SaveOwnershipData(
                     [self EXCEPT !.ownership_records =
                         (token_id :> OwnershipRecord(token_id, owner_address,
                                                      creator_address)) @@ @]),
          result |-> [success |-> TRUE, token_id |-> token_id,
                      owner |-> owner_address, creator |-> creator_address]]

\* uuid4 gives an id no transfer has.
FreshTransferId(self) ==
    Cardinality(DOMAIN self.active_transfers) + Len(self.transfer_history) + 1

Raised(self, error) == [self |-> self, raised |-> TRUE, result |-> error]

initiate_transfer(self, token_id, from_address, to_address, transfer_value, transfer_type, conditions) ==
    IF token_id \notin DOMAIN self.ownership_records
    THEN Raised(self, "NFT not found in ownership records")
    ELSE IF self.ownership_records[token_id].current_owner # from_address
    THEN Raised(self, "Transfer initiator is not the current owner")
    ELSE LET transfer_id == FreshTransferId(self)
         IN  [self |-> SaveOwnershipData(
                         [self EXCEPT !.active_transfers =
                             (transfer_id :>
                                 TransferAgreement(transfer_id, transfer_type,
                                     token_id, from_address, to_address,
                                     transfer_value, conditions)) @@ @]),
              raised |-> FALSE,
              result |-> transfer_id]

verify_current_ownership(self, transfer) ==
    /\ transfer.nft_token_id \in DOMAIN self.ownership_records
    /\ self.ownership_records[transfer.nft_token_id].current_owner
           = transfer.from_address

\* Lines 254-308.  The except clause of lines 305-308 is not reached: the
\* record of the token exists and its ownership_start was written by
\* isoformat().
execute_transfer(self, transfer_id) ==
    IF transfer_id \notin DOMAIN self.active_transfers
    THEN [self |-> self, result |-> Failure("Transfer not found")]
    ELSE IF self.active_transfers[transfer_id].status # VERIFIED
    THEN [self |-> self,
          result |-> Failure("Transfer must be verified before execution")]
    ELSE LET transfer == [self.active_transfers[transfer_id] EXCEPT
                              !.status = COMPLETED, !.executed_at = "set"]
             token_id == transfer.nft_token_id
             ownership_record == self.ownership_records[token_id]
         IN  [self |-> SaveOwnershipData(
                         [self EXCEPT
                             !.ownership_records[token_id] =
                                 [ownership_record EXCEPT
                                     !.previous_owner =
                                         ownership_record.current_owner,
                                     !.current_owner = transfer.to_address,
                                     !.transfer_history = Append(@, transfer_id)],
                             !.transfer_history = Append(@, transfer),
                             !.active_transfers = Remove(@, transfer_id)]),
              result |-> [success |-> TRUE, transfer_id |-> transfer_id,
                          nft_token_id |-> token_id,
                          new_owner |-> transfer.to_address]]

verify_transfer_conditions(self, transfer_id) ==
    IF transfer_id \notin DOMAIN self.active_transfers
    THEN [self |-> self, result |-> Failure("Transfer not found")]
    ELSE IF self.active_transfers[transfer_id].status # INITIATED
    THEN [self |-> self, result |-> Failure("Transfer is not initiated")]
    ELSE IF verify_current_ownership(self, self.active_transfers[transfer_id])
    THEN execute_transfer(
             SaveOwnershipData(
                 [self EXCEPT !.active_transfers[transfer_id].status = VERIFIED]),
             transfer_id)
    ELSE [self |-> self, result |-> Failure("Transfer conditions not met")]

cancel_transfer(self, transfer_id, reason) ==
    IF transfer_id \notin DOMAIN self.active_transfers
    THEN [self |-> self, result |-> Failure("Transfer not found")]
    ELSE IF self.active_transfers[transfer_id].status \in {COMPLETED, FAILED}
    THEN [self |-> self, result |-> Failure("Cannot cancel transfer")]
    ELSE LET transfer == [self.active_transfers[transfer_id] EXCEPT
                              !.status = CANCELLED,
                              !.conditions.cancellation_reason = reason,
                              !.executed_at = "set"]
         IN  [self |-> SaveOwnershipData(
                         [self EXCEPT
                             !.transfer_history = Append(@, transfer),
                             !.active_transfers = Remove(@, transfer_id)]),
              result |-> [success |-> TRUE, transfer_id |-> transfer_id,
                          status |-> "cancelled", reason |-> reason]]

FreshSwapId(self) == Cardinality(DOMAIN self.atomic_swap_pairs) + 1

\* Lines 310-343.  A ValueError of either initiate_transfer leaves the
\* coroutine: the transfer made before it stays.
initiate_atomic_swap(self, nft1_token_id, nft1_owner, nft2_token_id, nft2_owner) ==
    LET swap_id == FreshSwapId(self)
        first == initiate_transfer(self, nft1_token_id, nft1_owner, nft2_owner,
                     "0", ATOMIC_SWAP, SwapConditions(swap_id, nft2_token_id))
        second == initiate_transfer(first.self, nft2_token_id, nft2_owner,
                     nft1_owner, "0", ATOMIC_SWAP,
                     SwapConditions(swap_id, nft1_token_id))
    IN  IF first.raised THEN first
        ELSE IF second.raised THEN second
        ELSE [self |-> SaveOwnershipData(
                         [second.self EXCEPT !.atomic_swap_pairs =
                             (swap_id :> << first.result, second.result >>) @@ @]),
              raised |-> FALSE,
              result |-> swap_id]

execute_atomic_swap(self, swap_id) ==
    IF swap_id \notin DOMAIN self.atomic_swap_pairs
    THEN [self |-> self, result |-> Failure("Atomic swap not found")]
    ELSE LET transfer_ids == self.atomic_swap_pairs[swap_id]
             first == verify_transfer_conditions(self, transfer_ids[1])
             second == verify_transfer_conditions(first.self, transfer_ids[2])
         IN  IF first.result.success /\ second.result.success
             THEN [self |-> second.self,
                   result |-> [success |-> TRUE, swap_id |-> swap_id]]
             ELSE [self |-> cancel_transfer(
                               cancel_transfer(second.self, transfer_ids[1],
                                   "Atomic swap counterpart failed").self,
                               transfer_ids[2],
                               "Atomic swap counterpart failed").self,
                   result |-> Failure("Atomic swap failed - both transfers cancelled")]

\* A call of the manager: its fields and its file after the call.  `ret`
\* keeps the call only of execute_atomic_swap, with the swap it was about and
\* the success it reported: what the other calls return is not kept.
OwnershipCall(op, args, after, value) ==
    /\ ownership_records' = after.ownership_records
    /\ active_transfers' = after.active_transfers
    /\ transfer_history' = after.transfer_history
    /\ atomic_swap_pairs' = after.atomic_swap_pairs
    /\ ownership_data' = OwnershipDataAfter(after)
    /\ ret' = IF op = "execute_atomic_swap"
              THEN [op |-> op, args |-> args, value |-> value]
              ELSE NoRet
    /\ UNCHANGED << coordinator_vars, escrow_vars >>

RegisterNft ==
    \E token_id \in Tokens, owner \in Addresses, creator \in Creators :
        \E r \in {register_nft_ownership(OwnershipManager, token_id, owner, creator)} :
            OwnershipCall("register_nft_ownership", << >>, r.self,
                          r.result.success)

InitiateTransfer ==
    \E token_id \in Tokens, from_address \in Addresses, to_address \in Addresses,
       transfer_value \in TransferValues :
        \E r \in {initiate_transfer(OwnershipManager, token_id, from_address,
                      to_address, transfer_value, DIRECT_TRANSFER, NoConditions)} :
            /\ FreshTransferId(r.self) <= MaxTransfers + 1
            /\ OwnershipCall("initiate_transfer", << >>, r.self,
                             IF r.raised THEN "ValueError" ELSE r.result)

VerifyTransferConditions ==
    \E transfer_id \in TransferIds :
        \E r \in {verify_transfer_conditions(OwnershipManager, transfer_id)} :
            OwnershipCall("verify_transfer_conditions", << transfer_id >>,
                          r.self, r.result.success)

InitiateAtomicSwap ==
    \E nft1 \in Tokens, nft1_owner \in Addresses,
       nft2 \in Tokens, nft2_owner \in Addresses :
        \E r \in {initiate_atomic_swap(OwnershipManager, nft1, nft1_owner,
                                       nft2, nft2_owner)} :
            /\ FreshTransferId(r.self) <= MaxTransfers + 1
            /\ FreshSwapId(r.self) <= MaxSwaps + 1
            /\ OwnershipCall("initiate_atomic_swap", << >>, r.self,
                             IF r.raised THEN "ValueError" ELSE r.result)

ExecuteAtomicSwap ==
    \E swap_id \in SwapIds :
        \E r \in {execute_atomic_swap(OwnershipManager, swap_id)} :
            OwnershipCall("execute_atomic_swap", << swap_id >>, r.self,
                          r.result.success)

NextOwnership ==
    \/ RegisterNft
    \/ InitiateTransfer
    \/ VerifyTransferConditions
    \/ InitiateAtomicSwap
    \/ ExecuteAtomicSwap

SpecOwnership == Init /\ [][NextOwnership]_<< ownership_vars, ret >>

---------------------------------------------------------------------------
\* AdvancedEscrowManager (utils/escrow_manager.py).  As for the ownership
\* manager, a call runs to its return in one step, the operators take the
\* manager as a record of its fields, and the writes of escrow_data.json
\* succeed.  Amounts are in cents, times in hours; released_at is None or
\* "set".

\* Number of escrow agreements created in one run of the model.
MaxEscrows == 2

\* The last hour the clock of the model reaches.
MaxTime == 36

EscrowIds == 1..MaxEscrows

\* 0.025 and 0.005, in thousandths.
platform_fee_rate == 25

seller_fee_rate == 5

escrow_duration_hours == 24

Buyers == {"0xbuyer123"}

Sellers == {"0xseller456"}

Funders == {"0xbuyer123", "0xseller456"}

Disputers == {"0xbuyer123", "0xseller456", "0xother789"}

\* 250.00
PurchasePrices == {25000}

\* 257.50, the escrow amount of a purchase at 250.00, and 250.00
FundingAmounts == {25750, 25000}

NftTransferHashes == {"0xabcdef123456...", "0xabc"}

DisputeReasons == {"NFT not received"}

RefundReasons == {"Buyer cancelled"}

CREATED == "CREATED"
FUNDED == "FUNDED"
RELEASED == "RELEASED"
REFUNDED == "REFUNDED"
DISPUTED == "DISPUTED"
EXPIRED == "EXPIRED"

EscrowStatusValue(s) ==
    CASE s = CREATED -> "created"
      [] s = FUNDED -> "funded"
      [] s = VERIFIED -> "verified"
      [] s = RELEASED -> "released"
      [] s = REFUNDED -> "refunded"
      [] s = DISPUTED -> "disputed"
      [] s = EXPIRED -> "expired"

\* Lines 110-130.
EscrowAgreement(escrow_id, buyer_address, seller_address, nft_token_id, purchase_price, now) ==
    LET platform_fee == (purchase_price * platform_fee_rate) \div 1000
        seller_fee == (purchase_price * seller_fee_rate) \div 1000
    IN  [escrow_id |-> escrow_id, buyer_address |-> buyer_address,
         seller_address |-> seller_address, nft_token_id |-> nft_token_id,
         escrow_amount |-> purchase_price + platform_fee + seller_fee,
         platform_fee |-> platform_fee, seller_fee |-> seller_fee,
         status |-> CREATED, created_at |-> now,
         expires_at |-> now + escrow_duration_hours,
         funded_amount |-> 0, verification_hash |-> "sha256(agreement)",
         dispute_reason |-> None, released_at |-> None,
         transaction_hash |-> None]

\* The manager as the methods see it.
EscrowManager ==
    [active_escrows |-> active_escrows, escrow_history |-> escrow_history,
     saved |-> << >>]

SerializeEscrow(escrow) == [escrow EXCEPT !.status = EscrowStatusValue(@)]

\* Lines 81-96.  The list of active escrows is in the order of the dict, which
\* is the order of the escrow ids.
EscrowSnapshot(self) ==
    [active_escrows |->
         [id \in DOMAIN self.active_escrows |->
             SerializeEscrow(self.active_escrows[id])],
     escrow_history |->
         [i \in DOMAIN self.escrow_history |->
             SerializeEscrow(self.escrow_history[i])]]

SaveEscrowData(self) == [self EXCEPT !.saved = Append(@, EscrowSnapshot(self))]

\* The file after a call: the last snapshot the call saved.
EscrowDataAfter(self) ==
    IF self.saved = << >> THEN escrow_data ELSE self.saved[Len(self.saved)]

\* uuid4 gives an id no escrow has.
FreshEscrowId(self) ==
    Cardinality(DOMAIN self.active_escrows) + Len(self.escrow_history) + 1

create_escrow_agreement(self, buyer_address, seller_address, nft_token_id, purchase_price, now) ==
    LET escrow_id == FreshEscrowId(self)
    IN  [self |-> SaveEscrowData(
                    [self EXCEPT !.active_escrows =
                        (escrow_id :> EscrowAgreement(escrow_id, buyer_address,
                             seller_address, nft_token_id, purchase_price, now))
                        @@ @]),
         result |-> escrow_id]

fund_escrow(self, escrow_id, funding_amount, funder_address) ==
    IF escrow_id \notin DOMAIN self.active_escrows
    THEN [self |-> self, result |-> Failure("Escrow agreement not found")]
    ELSE IF self.active_escrows[escrow_id].status # CREATED
    THEN [self |-> self, result |-> Failure("Escrow cannot be funded in its status")]
    ELSE IF funder_address # self.active_escrows[escrow_id].buyer_address
    THEN [self |-> self, result |-> Failure("Only the buyer can fund the escrow")]
    ELSE IF funding_amount < self.active_escrows[escrow_id].escrow_amount
    THEN [self |-> self, result |-> Failure("Insufficient funding")]
    ELSE [self |-> SaveEscrowData(
                     [self EXCEPT !.active_escrows[escrow_id] =
                         [@ EXCEPT !.funded_amount = funding_amount,
                                   !.status = FUNDED,
                                   !.transaction_hash = "0xsha256(funding)"]]),
          result |-> [success |-> TRUE, escrow_id |-> escrow_id,
                      funded_amount |-> funding_amount, status |-> "funded"]]

\* An escrow that is released whatever its status.
release_escrow_AnyStatus(self, escrow_id) ==
    IF escrow_id \notin DOMAIN self.active_escrows
    THEN [self |-> self, result |-> Failure("Escrow agreement not found")]
    ELSE LET escrow == [self.active_escrows[escrow_id] EXCEPT
                            !.status = RELEASED, !.released_at = "set"]
         IN  [self |-> SaveEscrowData(
                         [self EXCEPT
                             !.escrow_history = Append(@, escrow),
                             !.active_escrows = Remove(@, escrow_id)]),
              result |-> [success |-> TRUE, escrow_id |-> escrow_id,
                          status |-> "released"]]

release_escrow(self, escrow_id) ==
    IF escrow_id \notin DOMAIN self.active_escrows
    THEN [self |-> self, result |-> Failure("Escrow agreement not found")]
    ELSE IF self.active_escrows[escrow_id].status # VERIFIED
    THEN [self |-> self, result |-> Failure("Escrow must be verified before release")]
    ELSE LET escrow == [self.active_escrows[escrow_id] EXCEPT
                            !.status = RELEASED, !.released_at = "set"]
         IN  [self |-> SaveEscrowData(
                         [self EXCEPT
                             !.escrow_history = Append(@, escrow),
                             !.active_escrows = Remove(@, escrow_id)]),
              result |-> [success |-> TRUE, escrow_id |-> escrow_id,
                          status |-> "released"]]

verify_nft_transfer(self, escrow_id, nft_transfer_hash) ==
    IF escrow_id \notin DOMAIN self.active_escrows
    THEN [self |-> self, result |-> Failure("Escrow agreement not found")]
    ELSE IF self.active_escrows[escrow_id].status # FUNDED
    THEN [self |-> self, result |-> Failure("Escrow must be funded before verification")]
    ELSE IF nft_transfer_hash # "" /\ Len(nft_transfer_hash) > 10
    THEN release_escrow(
             SaveEscrowData(
                 [self EXCEPT !.active_escrows[escrow_id] =
                     [@ EXCEPT !.status = VERIFIED,
                               !.verification_hash = nft_transfer_hash]]),
             escrow_id)
    ELSE [self |-> self, result |-> Failure("Invalid NFT transfer hash")]

refund_escrow(self, escrow_id, reason) ==
    IF escrow_id \notin DOMAIN self.active_escrows
    THEN [self |-> self, result |-> Failure("Escrow agreement not found")]
    ELSE IF self.active_escrows[escrow_id].status \notin {FUNDED, DISPUTED}
    THEN [self |-> self, result |-> Failure("Cannot refund escrow in its status")]
    ELSE LET escrow == [self.active_escrows[escrow_id] EXCEPT
                            !.status = REFUNDED, !.dispute_reason = reason,
                            !.released_at = "set"]
         IN  [self |-> SaveEscrowData(
                         [self EXCEPT
                             !.escrow_history = Append(@, escrow),
                             !.active_escrows = Remove(@, escrow_id)]),
              result |-> [success |-> TRUE, escrow_id |-> escrow_id,
                          refund_amount |-> escrow.funded_amount,
                          refund_to |-> escrow.buyer_address,
                          status |-> "refunded"]]

dispute_escrow(self, escrow_id, dispute_reason, disputer_address) ==
    IF escrow_id \notin DOMAIN self.active_escrows
    THEN [self |-> self, result |-> Failure("Escrow agreement not found")]
    ELSE IF disputer_address \notin {self.active_escrows[escrow_id].buyer_address,
                                     self.active_escrows[escrow_id].seller_address}
    THEN [self |-> self, result |-> Failure("Only buyer or seller can dispute")]
    ELSE IF self.active_escrows[escrow_id].status \notin {FUNDED, VERIFIED}
    THEN [self |-> self, result |-> Failure("Cannot dispute escrow in its status")]
    ELSE [self |-> SaveEscrowData(
                     [self EXCEPT !.active_escrows[escrow_id] =
                         [@ EXCEPT !.status = DISPUTED,
                                   !.dispute_reason = dispute_reason]]),
          result |-> [success |-> TRUE, escrow_id |-> escrow_id,
                      status |-> "disputed"]]

\* list(self.active_escrows.items()): the ids of the active escrows, in the
\* order of the dict.
ActiveEscrowIds(self) ==
    SelectSeq([i \in 1..MaxEscrows |-> i],
              LAMBDA id : id \in DOMAIN self.active_escrows)

\* Lines 314-323, for the escrows `ids` that the loop has still to visit.  The
\* status is assigned at line 318 and read again at line 322.
RECURSIVE CheckExpired(_, _, _)
CheckExpired(self, ids, now) ==
    IF ids = << >>
    THEN [self |-> self, result |-> << >>]
    ELSE LET escrow_id == Head(ids)
             escrow == self.active_escrows[escrow_id]
         IN  IF now > escrow.expires_at /\ escrow.status \in {CREATED, FUNDED}
             THEN LET expired == [self EXCEPT
                                     !.active_escrows[escrow_id].status = EXPIRED]
                      after == IF expired.active_escrows[escrow_id].status = FUNDED
                               THEN refund_escrow(expired, escrow_id,
                                                  "Escrow expired").self
                               ELSE expired
                      rest == CheckExpired(after, Tail(ids), now)
                  IN  [self |-> rest.self,
                       result |-> << escrow_id >> \o rest.result]
             ELSE CheckExpired(self, Tail(ids), now)

check_expired_escrows(self, now) == CheckExpired(self, ActiveEscrowIds(self), now)

\* A call of the manager: its fields and its file after the call, and in
\* `ret` the call, its arguments and what it returned: the success it
\* reported, the escrow id for create_escrow_agreement, the list of expired
\* escrows for check_expired_escrows.
EscrowCall(op, args, after, value) ==
    /\ active_escrows' = after.active_escrows
    /\ escrow_history' = after.escrow_history
    /\ escrow_data' = EscrowDataAfter(after)
    /\ ret' = [op |-> op, args |-> args, value |-> value]
    /\ UNCHANGED << current_time, coordinator_vars, ownership_vars >>

CreateEscrowAgreement ==
    \E buyer \in Buyers, seller \in Sellers, nft \in Tokens,
       purchase_price \in PurchasePrices :
        \E r \in {create_escrow_agreement(EscrowManager, buyer, seller, nft,
                                          purchase_price, current_time)} :
            /\ FreshEscrowId(r.self) <= MaxEscrows + 1
            /\ EscrowCall("create_escrow_agreement",
                          << buyer, seller, nft, purchase_price >>,
                          r.self, r.result)

FundEscrow ==
    \E escrow_id \in EscrowIds, funding_amount \in FundingAmounts,
       funder \in Funders :
        \E r \in {fund_escrow(EscrowManager, escrow_id, funding_amount, funder)} :
            EscrowCall("fund_escrow", << escrow_id, funding_amount, funder >>,
                       r.self, r.result.success)

VerifyNftTransfer ==
    \E escrow_id \in EscrowIds, nft_transfer_hash \in NftTransferHashes :
        \E r \in {verify_nft_transfer(EscrowManager, escrow_id, nft_transfer_hash)} :
            EscrowCall("verify_nft_transfer", << escrow_id, nft_transfer_hash >>,
                       r.self, r.result.success)

ReleaseEscrow ==
    \E escrow_id \in EscrowIds :
        \E r \in {release_escrow(EscrowManager, escrow_id)} :
            EscrowCall("release_escrow", << escrow_id >>, r.self,
                       r.result.success)

RefundEscrow ==
    \E escrow_id \in EscrowIds, reason \in RefundReasons :
        \E r \in {refund_escrow(EscrowManager, escrow_id, reason)} :
            EscrowCall("refund_escrow", << escrow_id, reason >>, r.self,
                       r.result.success)

DisputeEscrow ==
    \E escrow_id \in EscrowIds, reason \in DisputeReasons,
       disputer \in Disputers :
        \E r \in {dispute_escrow(EscrowManager, escrow_id, reason, disputer)} :
            EscrowCall("dispute_escrow", << escrow_id, reason, disputer >>,
                       r.self, r.result.success)

CheckExpiredEscrows ==
    \E r \in {check_expired_escrows(EscrowManager, current_time)} :
        EscrowCall("check_expired_escrows", << >>, r.self, r.result)

\* Time passes between two calls.
Tick ==
    /\ current_time + escrow_duration_hours \div 2 <= MaxTime
    /\ current_time' = current_time + escrow_duration_hours \div 2
    /\ ret' = NoRet
    /\ UNCHANGED << active_escrows, escrow_history, escrow_data,
                    coordinator_vars, ownership_vars >>

NextEscrow ==
    \/ CreateEscrowAgreement
    \/ FundEscrow
    \/ VerifyNftTransfer
    \/ ReleaseEscrow
    \/ RefundEscrow
    \/ DisputeEscrow
    \/ CheckExpiredEscrows
    \/ Tick

SpecEscrow == Init /\ [][NextEscrow]_<< escrow_vars, ret >>

---------------------------------------------------------------------------
\* Properties

Terminal == {COMPLETED, FAILED, CANCELLED}

Created == DOMAIN transactions

StepStatus(t, i) == transactions[t].steps[i].status

AllStepsCompleted(t) ==
    \A i \in DOMAIN transactions[t].steps : StepStatus(t, i) = COMPLETED

SomeStepFailed(t) ==
    \E i \in DOMAIN transactions[t].steps : StepStatus(t, i) = FAILED

\* C1. Dependency ordering: the handler of a step starts only in a state in
\* which every dependency of the step has status COMPLETED, whatever other
\* transactions and cancel calls interleave.
C1_DependencyOrdering ==
    [][\A t \in Created :
         \A i \in DOMAIN transactions[t].steps :
            invoked'[t][i] > invoked[t][i] =>
                \A dep_id \in transactions[t].steps[i].dependencies :
                    StepStatus(t, dep_id) = COMPLETED]_vars

\* setup_escrow of one purchase has started while another transaction, already
\* cancelled, still has handlers in flight.
C1_Witness ==
    \E t, u \in Created :
        /\ t # u
        /\ transactions[t].transaction_type = NFT_PURCHASE
        /\ invoked[t][3] = 1
        /\ transactions[u].status = CANCELLED
        /\ pc[u] = "gather"

\* C2 as stated. Status consistency (completed): in every state a caller can
\* observe, status COMPLETED if and only if every step is COMPLETED.
C2_CompletedIffAllSteps ==
    \A t \in Created :
        transactions[t].status = COMPLETED <=> AllStepsCompleted(t)

\* C2 amended. Status COMPLETED only if every step is COMPLETED; when every
\* step is COMPLETED the transaction is EXECUTING until the loop's next
\* iteration, COMPLETED once the loop has ended, or CANCELLED by a cancel
\* that came first.
C2_CompletedOnlyIfAllSteps ==
    \A t \in Created :
        /\ transactions[t].status = COMPLETED => AllStepsCompleted(t)
        /\ AllStepsCompleted(t) =>
              transactions[t].status \in {EXECUTING, COMPLETED, CANCELLED}
        /\ (AllStepsCompleted(t) /\ pc[t] = "done"
                /\ transactions[t].status # CANCELLED) =>
              transactions[t].status = COMPLETED

C2_Witness ==
    \E t \in Created :
        /\ transactions[t].status = COMPLETED
        /\ AllStepsCompleted(t)
        /\ pc[t] = "done"

\* C3 as stated. Status consistency (failed): in every state a caller can
\* observe, status FAILED if and only if some step is FAILED.
C3_FailedIffSomeStep ==
    \A t \in Created :
        transactions[t].status = FAILED <=> SomeStepFailed(t)

\* C3 amended. Status FAILED only if some step is FAILED; a transaction with
\* a FAILED step is EXECUTING until the loop's next iteration, FAILED once the
\* loop has ended, or CANCELLED by a cancel that came first.
C3_FailedOnlyIfSomeStep ==
    \A t \in Created :
        /\ transactions[t].status = FAILED => SomeStepFailed(t)
        /\ SomeStepFailed(t) =>
              transactions[t].status \in {EXECUTING, FAILED, CANCELLED}
        /\ (SomeStepFailed(t) /\ pc[t] = "done"
                /\ transactions[t].status # CANCELLED) =>
              transactions[t].status = FAILED

C3_Witness ==
    \E t \in Created :
        /\ transactions[t].status = FAILED
        /\ SomeStepFailed(t)
        /\ pc[t] = "done"

\* C4. Immutability of terminal transactions: once the status is COMPLETED,
\* FAILED or CANCELLED, no field of the transaction or of its steps changes,
\* also when the cancel came while steps were in flight.
C4_TerminalImmutable ==
    [][\A t \in Created :
         transactions[t].status \in Terminal =>
            transactions'[t] = transactions[t]]_vars

\* C5. Progress: without cancellation and with handlers that return or
\* raise, the loop of process_transaction ends with the transaction COMPLETED
\* or FAILED, after at most (number of steps + 1) iterations.
C5_Progress ==
    \A t \in TxIds :
        /\ [](t \in Created => iters[t] <= Len(transactions[t].steps) + 1)
        /\ (pc[t] = "scheduled") ~>
              (pc[t] = "done" /\ transactions[t].status \in {COMPLETED, FAILED})

\* A purchase whose loop ended in its fifth iteration: four batches, then the
\* iteration that finds every step completed.
C5_Witness ==
    \E t \in Created :
        /\ pc[t] = "done"
        /\ transactions[t].status = COMPLETED
        /\ iters[t] = 5

HandlerRaised(t) ==
    /\ t \in Created
    /\ \/ SomeStepFailed(t)
       \/ \E k \in DOMAIN tasks[t].result : tasks[t].result[k] = "raise"

ReportsCompleted5of5(t) ==
    LET snapshot == get_transaction_status(t)
    IN /\ snapshot.found
       /\ snapshot.status = "completed"
       /\ snapshot.progress = "5/5"

\* C6. Scenario A: after initiate_nft_purchase, when no handler raises and
\* nobody cancels, get_transaction_status eventually reports status
\* 'completed' and progress '5/5', and reports them from then on.
C6_ScenarioA ==
    \A t \in TxIds :
        (pc[t] = "scheduled" /\ transactions[t].transaction_type = NFT_PURCHASE)
            ~> (HandlerRaised(t) \/ []ReportsCompleted5of5(t))

C6_Witness ==
    \E t \in Created :
        /\ transactions[t].transaction_type = NFT_PURCHASE
        /\ ~HandlerRaised(t)
        /\ ReportsCompleted5of5(t)

IsPurchase(t) ==
    t \in Created /\ transactions[t].transaction_type = NFT_PURCHASE

ScenarioBSteps(t) ==
    /\ IsPurchase(t)
    /\ StepStatus(t, 1) = COMPLETED
    /\ StepStatus(t, 2) = COMPLETED
    /\ StepStatus(t, 3) = FAILED
    /\ StepStatus(t, 4) = PENDING /\ invoked[t][4] = 0
    /\ StepStatus(t, 5) = PENDING /\ invoked[t][5] = 0

EscrowRaised(t) ==
    /\ IsPurchase(t)
    /\ pc[t] = "gather"
    /\ ready_steps[t] = << 3 >>
    /\ tasks[t].result[1] = "raise"

\* C7. Scenario B: when the setup_escrow handler of a purchase raises (steps
\* 1 and 2 having succeeded) and nobody cancels, the transaction ends FAILED
\* with steps 1 and 2 COMPLETED, step 3 FAILED, steps 4 and 5 PENDING, and
\* the handlers of steps 4 and 5 are never started.
C7_ScenarioB ==
    \A t \in TxIds :
        /\ []((IsPurchase(t) /\ StepStatus(t, 3) = FAILED) => ScenarioBSteps(t))
        /\ EscrowRaised(t) ~>
              [](/\ pc[t] = "done"
                 /\ transactions[t].status = FAILED
                 /\ ScenarioBSteps(t))

C7_Witness ==
    \E t \in Created :
        /\ IsPurchase(t)
        /\ pc[t] = "done"
        /\ transactions[t].status = FAILED
        /\ ScenarioBSteps(t)

\* The transaction without its timestamps, and the steps that are ready next.
Untimed(tx) ==
    [status |-> tx.status,
     steps |-> [i \in DOMAIN tx.steps |->
                   [status |-> tx.steps[i].status,
                    result |-> tx.steps[i].result,
                    error_message |-> tx.steps[i].error_message]],
     next_ready |-> GetNextPendingSteps(tx)]

AfterBatch(t, task) ==
    Untimed(UpdateStepStatuses(transactions[t], ready_steps[t], Gather(task)))

C9_ScenarioC ==
    [][\A t \in TxIds :
         /\ \A reason \in Reasons :
              (/\ ret'.op = "cancel"
               /\ ret'.args = << t, reason >>
               /\ t \in active_transactions
               /\ transactions[t].status = PENDING) =>
                 /\ ret'.value = TRUE
                 /\ transactions'[t].status = CANCELLED
                 /\ transactions'[t].metadata.cancellation_reason = reason
                 /\ transactions'[t].steps = transactions[t].steps
                 /\ active_transactions' = active_transactions \ {t}
                 /\ transaction_history' = Append(transaction_history, t)
         /\ (/\ t \in Created
             /\ transactions[t].status = CANCELLED
             /\ pc[t] = "scheduled") =>
                 /\ pc'[t] \in {"scheduled", "done"}
                 /\ invoked'[t] = [i \in 1..5 |-> 0]
                 /\ transactions'[t] = transactions[t]]_vars

\* A transaction cancelled before its task ran, after the task has run.
C9_Witness ==
    \E t \in Created :
        /\ transactions[t].status = CANCELLED
        /\ transactions[t].metadata.cancellation_reason = "user requested"
        /\ pc[t] = "done"
        /\ iters[t] = 0
        /\ t \notin active_transactions
        /\ \E k \in DOMAIN transaction_history : transaction_history[k] = t

\* C10. Scenario D: cancel_transaction on a transaction whose status is
\* COMPLETED, FAILED or CANCELLED returns False and changes neither the
\* transaction, the active set, the history nor the file.
C10_ScenarioD ==
    [][\A t \in Created :
         \A reason \in Reasons :
            (/\ ret'.op = "cancel"
             /\ ret'.args = << t, reason >>
             /\ transactions[t].status \in Terminal) =>
                /\ ret'.value = FALSE
                /\ UNCHANGED << transactions, active_transactions,
                                transaction_history, disk >>]_vars

\* A cancel was just refused on a COMPLETED transaction, the other
\* transaction being CANCELLED.
C10_Witness ==
    /\ ret.op = "cancel"
    /\ ret.value = FALSE
    /\ ret.args[1] \in Created
    /\ transactions[ret.args[1]].status = COMPLETED
    /\ \E u \in Created : transactions[u].status = CANCELLED

\* The transaction was cancelled: cancel_transaction(t, reason) returned True.
Cancelled(t) ==
    /\ t \in Created
    /\ t \notin active_transactions
    /\ transactions[t].metadata.cancellation_reason # None

StepsChanged(t) ==
    {i \in DOMAIN transactions[t].steps :
        transactions'[t].steps[i].status # transactions[t].steps[i].status}

\* C11. Cancellation bound: after cancel_transaction returned True for a
\* transaction, at most one of its steps changes to COMPLETED or FAILED; in
\* particular no later step of the coordinator changes two of them.
C11_CancellationBound ==
    [][\A t \in TxIds : Cancelled(t) => Cardinality(StepsChanged(t)) <= 1]_vars

\* The steps of t that are in flight: dispatched in the batch that
\* process_transaction is waiting for.
InFlight(t) ==
    IF pc[t] = "gather"
    THEN {ready_steps[t][k] : k \in DOMAIN ready_steps[t]}
    ELSE {}

\* C12. Cancellation stops scheduling: once cancel_transaction returned True,
\* process_transaction dispatches no batch for the transaction and no handler
\* starts but those of the steps in flight (dispatched in a batch) when the
\* cancel came: the cancel itself starts nothing, and afterwards the steps in
\* flight only decrease, whether the cancel came before the loop started,
\* during a batch or during the pause between two batches.
C12_StopsScheduling ==
    [][\A t \in TxIds :
         /\ (ret'.op = "cancel" /\ ret'.value = TRUE /\ ret'.args[1] = t) =>
               /\ InFlight(t)' = InFlight(t)
               /\ invoked'[t] = invoked[t]
         /\ Cancelled(t) =>
               /\ InFlight(t)' \subseteq InFlight(t)
               /\ \A i \in 1..5 :
                     invoked'[t][i] # invoked[t][i] => i \in InFlight(t)]_vars

\* One transaction cancelled after its first batch was dispatched, its loop
\* ended and its later steps never started, and another one cancelled during
\* a batch, one handler of the batch not started yet.
C12_Witness ==
    \E t, u \in Created :
        /\ Cancelled(t) /\ Cancelled(u)
        /\ pc[t] = "done" /\ iters[t] = 1
        /\ invoked[t] = [i \in 1..5 |-> IF i \in {1, 2} THEN 1 ELSE 0]
        /\ pc[u] = "gather"
        /\ \E k \in DOMAIN tasks[u].result : tasks[u].result[k] = "created"

InHistory(t) == \E k \in DOMAIN transaction_history : transaction_history[k] = t

\* C13. Active/history partition: in every state between two steps of the
\* event loop, and after a restart that loaded the file, each transaction is
\* either in the active set or in the history, once; it is in the active set
\* if and only if its status is PENDING or EXECUTING and in the history if
\* and only if its status is COMPLETED, FAILED or CANCELLED.
C13_Partition ==
    \A t \in Created :
        /\ (t \in active_transactions) # InHistory(t)
        /\ Cardinality({k \in DOMAIN transaction_history :
                            transaction_history[k] = t}) <= 1
        /\ t \in active_transactions <=>
              transactions[t].status \in {PENDING, EXECUTING}
        /\ InHistory(t) <=> transactions[t].status \in Terminal

\* After a restart: a transaction restored into the active set with status
\* EXECUTING, the other one restored into the history.
C13_Witness ==
    \E t, u \in Created :
        /\ pc[t] = "none" /\ pc[u] = "none"
        /\ t \in active_transactions
        /\ transactions[t].status = EXECUTING
        /\ InHistory(u)
        /\ transactions[u].status = COMPLETED

\* C14. Eventual terminal status: every transaction in the active set,
\* created by initiate_nft_purchase / initiate_nft_listing or restored by
\* _load_transaction_data with status PENDING or EXECUTING, eventually has
\* status COMPLETED, FAILED or CANCELLED, handlers returning or raising.
C14_EventuallyTerminal ==
    \A t \in TxIds :
        (t \in active_transactions) ~>
            (t \in Created /\ transactions[t].status \in Terminal)

\* The file holds transaction t with the statuses it has in memory.
Persisted(t) ==
    \E k \in DOMAIN disk :
        /\ disk[k].transaction_id = t
        /\ disk[k].status = StatusValue(transactions[t].status)
        /\ DOMAIN disk[k].steps = DOMAIN transactions[t].steps
        /\ \A i \in DOMAIN transactions[t].steps :
              disk[k].steps[i].status = StatusValue(StepStatus(t, i))

\* C15. Persistence after every mutation: whenever process_transaction or
\* cancel_transaction yields control or returns, and no write of the file
\* failed, the file holds the transaction status and the step statuses of
\* every transaction as they are in memory, the change from PENDING to
\* EXECUTING included.
C15_PersistedAfterMutation ==
    write_failures = 0 => \A t \in Created : Persisted(t)

\* What _load_transaction_data reads into a fresh coordinator from the file
\* that _save_transaction_data writes in this state.
Reloaded == LoadTransactionData(Snapshot(transactions, active_transactions,
                                         transaction_history))

\* C16. Reload round-trip: in every state of the coordinator, saving and
\* loading into a fresh coordinator gives the same transaction ids, each
\* with the same status, the same steps with the same statuses and
\* dependencies, in the same collection (active set or history).
C16_ReloadRoundTrip ==
    \E fresh \in {Reloaded} :
        /\ DOMAIN fresh.transactions = Created
        /\ \A t \in Created :
              /\ fresh.transactions[t].status = transactions[t].status
              /\ fresh.transactions[t].steps = transactions[t].steps
              /\ fresh.transactions[t].transaction_type =
                    transactions[t].transaction_type
        /\ fresh.active_transactions = active_transactions
        /\ fresh.transaction_history = transaction_history

\* A state with a transaction in each collection, one of them with a step
\* that failed, the other one executing with its first batch completed.
C16_Witness ==
    \E t, u \in Created :
        /\ InHistory(t)
        /\ transactions[t].status = FAILED
        /\ SomeStepFailed(t)
        /\ u \in active_transactions
        /\ transactions[u].status = EXECUTING
        /\ StepStatus(u, 1) = COMPLETED
        /\ StepStatus(u, 3) = PENDING

\* The batch of t has ended in this step: gather returned and
\* execute_transaction_steps updated the steps.
BatchEnds(t) == pc[t] = "gather" /\ pc'[t] = "pause"

\* The loop of t runs an iteration in this step, after a sleep.
Iterates(t) ==
    /\ t \in Created
    /\ pc[t] \in {"pause", "wait"}
    /\ pc'[t] # pc[t]
    /\ transactions[t].status = EXECUTING

\* C17. Failure isolation within a transaction: when the batch ends, each
\* step of the batch whose handler raised is FAILED with its error recorded,
\* each step whose handler returned is COMPLETED with its result, and no
\* other step has changed; a COMPLETED step stays COMPLETED; and the
\* iteration of the loop that finds the ready set empty and a FAILED step
\* makes the transaction FAILED and ends the loop.
C17_FailureIsolation ==
    [][\A t \in TxIds :
         /\ BatchEnds(t) =>
               \A i \in DOMAIN transactions[t].steps :
                  IF i \in InFlight(t)
                  THEN \A k \in DOMAIN ready_steps[t] :
                          ready_steps[t][k] = i =>
                             IF tasks[t].result[k] = "raise"
                             THEN /\ transactions'[t].steps[i].status = FAILED
                                  /\ transactions'[t].steps[i].error_message
                                        = "error"
                                  /\ transactions'[t].steps[i].result = None
                             ELSE /\ transactions'[t].steps[i].status = COMPLETED
                                  /\ transactions'[t].steps[i].result = "result"
                                  /\ transactions'[t].steps[i].error_message
                                        = None
                  ELSE transactions'[t].steps[i] = transactions[t].steps[i]
         /\ t \in Created =>
               \A i \in DOMAIN transactions[t].steps :
                  StepStatus(t, i) = COMPLETED =>
                     transactions'[t].steps[i] = transactions[t].steps[i]
         /\ (/\ Iterates(t)
             /\ SomeStepFailed(t)
             /\ GetNextPendingSteps(transactions[t]) = << >>) =>
               /\ transactions'[t].status = FAILED
               /\ transactions'[t].steps = transactions[t].steps
               /\ pc'[t] = "done"]_vars

\* verify_authenticity raised in the batch in which verify_valuation
\* returned, and the loop has ended.
C17_Witness ==
    \E t \in Created :
        /\ IsPurchase(t)
        /\ pc[t] = "done"
        /\ transactions[t].status = FAILED
        /\ StepStatus(t, 1) = COMPLETED
        /\ transactions[t].steps[1].error_message = None
        /\ StepStatus(t, 2) = FAILED
        /\ transactions[t].steps[2].error_message = "error"
        /\ \A i \in 3..5 : StepStatus(t, i) = PENDING /\ invoked[t][i] = 0

\* C18. No retry: the handler of a step is started at most once; a step
\* that is FAILED or COMPLETED keeps its status and its handler is not
\* started again; a FAILED transaction stays FAILED.
C18_NoRetry ==
    [][\A t \in Created :
         /\ \A i \in DOMAIN transactions[t].steps :
               /\ invoked'[t][i] <= 1
               /\ StepStatus(t, i) \in {FAILED, COMPLETED} =>
                     /\ transactions'[t].steps[i].status = StepStatus(t, i)
                     /\ invoked'[t][i] = invoked[t][i]
         /\ transactions[t].status = FAILED =>
               transactions'[t].status = FAILED]_vars

\* A listing that failed at create_listing, each of its handlers started
\* once, while the other transaction is still running.
C18_Witness ==
    \E t, u \in Created :
        /\ transactions[t].transaction_type = NFT_LISTING
        /\ transactions[t].status = FAILED
        /\ pc[t] = "done"
        /\ StepStatus(t, 3) = FAILED
        /\ invoked[t] = [i \in 1..5 |-> IF i <= 3 THEN 1 ELSE 0]
        /\ pc[u] \in {"gather", "pause"}

\* This step created transaction t, or changed the transaction, its place in
\* the active set or the history, or the state of its tasks.
Touched(t) ==
    \/ (t \in Created) # (t \in Created')
    \/ /\ t \in Created
       /\ \/ transactions'[t] # transactions[t]
          \/ (t \in active_transactions) # (t \in active_transactions')
          \/ InHistory(t) # InHistory(t)'
    \/ pc'[t] # pc[t]
    \/ tasks'[t] # tasks[t]
    \/ ready_steps'[t] # ready_steps[t]
    \/ iters'[t] # iters[t]
    \/ invoked'[t] # invoked[t]

\* C19. Isolation between transactions: a step of the event loop (a step of
\* one transaction's loop or of one of its handlers, a handler raising, a
\* cancel) changes one transaction at most, and whatever the tasks of the
\* other transactions do, a handler that never returns included, the
\* transaction whose own tasks keep running reaches a terminal status.
C19_Isolation ==
    /\ [][\A t, u \in TxIds : (Touched(t) /\ Touched(u)) => t = u]_vars
    /\ []<>(MaxTx \in Created => transactions[MaxTx].status \in Terminal)

\* The last transaction has completed while a handler of the first one,
\* cancelled since, has still not returned.
C19_Witness ==
    /\ MaxTx \in Created
    /\ transactions[MaxTx].status = COMPLETED
    /\ pc[MaxTx] = "done"
    /\ \E u \in Created :
          /\ transactions[u].status = CANCELLED
          /\ pc[u] = "gather"
          /\ \E k \in DOMAIN tasks[u].result : tasks[u].result[k] = "running"

\* The id is in neither collection.
Unknown(t) == t \notin active_transactions /\ ~InHistory(t)

ReadyNotStarted(t) ==
    {i \in DOMAIN transactions[t].steps :
        /\ invoked[t][i] = 0
        /\ \A dep_id \in transactions[t].steps[i].dependencies :
              StepStatus(t, dep_id) = COMPLETED}

\* C21. Status snapshot content: for a transaction that is found,
\* get_transaction_status reports progress 'c/t', c the number of COMPLETED
\* steps and t the number of steps, and its next_steps are exactly the steps
\* whose dependencies are all COMPLETED and whose handler has not been
\* started: a step in flight is not listed.
C21_SnapshotContent ==
    \A t \in Created :
        LET snapshot == get_transaction_status(t)
        IN snapshot.found =>
              /\ snapshot.progress =
                    Progress(Cardinality({i \in DOMAIN transactions[t].steps :
                                             StepStatus(t, i) = COMPLETED}),
                             Len(transactions[t].steps))
              /\ {snapshot.next_steps[k] : k \in DOMAIN snapshot.next_steps}
                    = ReadyNotStarted(t)

\* Step i of t becomes COMPLETED in this step.
Completes(t, i) ==
    /\ StepStatus(t, i) # COMPLETED
    /\ transactions'[t].steps[i].status = COMPLETED

StepActions(t) ==
    [i \in DOMAIN transactions[t].steps |-> transactions[t].steps[i].action]

StepDependencies(t) ==
    [i \in DOMAIN transactions[t].steps |-> transactions[t].steps[i].dependencies]

\* C22. Purchase plan: a transaction created by initiate_nft_purchase has
\* the 5 steps verify_valuation, verify_authenticity, setup_escrow,
\* execute_transfer, finalize_transaction, with dependencies {}, {}, {1,2},
\* {3}, {4}; step 3 completes only after steps 1 and 2, step 4 only after
\* step 3 and step 5 only after step 4.
C22_PurchasePlan ==
    [][\A t \in Created :
         IsPurchase(t) =>
            /\ StepActions(t) = << "verify_valuation", "verify_authenticity",
                                   "setup_escrow", "execute_transfer",
                                   "finalize_transaction" >>
            /\ StepDependencies(t) = << {}, {}, {1, 2}, {3}, {4} >>
            /\ Completes(t, 3) =>
                  StepStatus(t, 1) = COMPLETED /\ StepStatus(t, 2) = COMPLETED
            /\ Completes(t, 4) => StepStatus(t, 3) = COMPLETED
            /\ Completes(t, 5) => StepStatus(t, 4) = COMPLETED]_vars

\* A purchase with steps 1 to 4 completed and the handler of step 5 running.
C22_Witness ==
    \E t \in Created :
        /\ IsPurchase(t)
        /\ \A i \in 1..4 : StepStatus(t, i) = COMPLETED
        /\ StepStatus(t, 5) = PENDING
        /\ pc[t] = "gather"
        /\ ready_steps[t] = << 5 >>
        /\ tasks[t].result = << "running" >>

IsListing(t) ==
    t \in Created /\ transactions[t].transaction_type = NFT_LISTING

ReportsCompleted3of3(t) ==
    LET snapshot == get_transaction_status(t)
    IN /\ snapshot.found
       /\ snapshot.status = "completed"
       /\ snapshot.progress = "3/3"

\* C23. Listing plan: a transaction created by initiate_nft_listing has the
\* 3 steps verify_ownership and market_valuation, without dependencies, and
\* create_listing, depending on both; the handler of create_listing starts
\* only after both other steps are COMPLETED; and when no handler raises the
\* transaction ends completed with progress 3/3.
C23_ListingPlan ==
    /\ [][\A t \in Created :
            IsListing(t) =>
               /\ StepActions(t) = << "verify_ownership", "market_valuation",
                                      "create_listing" >>
               /\ StepDependencies(t) = << {}, {}, {1, 2} >>
               /\ invoked'[t][3] > invoked[t][3] =>
                     /\ StepStatus(t, 1) = COMPLETED
                     /\ StepStatus(t, 2) = COMPLETED]_vars
    /\ \A t \in TxIds :
          (pc[t] = "scheduled" /\ IsListing(t))
              ~> (HandlerRaised(t) \/ []ReportsCompleted3of3(t))

\* A listing completed, none of its handlers having raised, next to a
\* purchase that is still running.
C23_Witness ==
    \E t, u \in Created :
        /\ IsListing(t)
        /\ ~HandlerRaised(t)
        /\ ReportsCompleted3of3(t)
        /\ IsPurchase(u)
        /\ pc[u] = "gather"

AllStepsPending(t) ==
    \A i \in DOMAIN transactions[t].steps : StepStatus(t, i) = PENDING

\* C24. Non-blocking initiation: when initiate_nft_purchase or
\* initiate_nft_listing returns the new id, the transaction is in the active
\* set, PENDING with every step PENDING, its task scheduled and none of its
\* handlers started, and the file, its write having succeeded, holds it so;
\* a PENDING transaction becomes EXECUTING only when its process_transaction
\* task runs, and no handler starts while it is PENDING.
C24_NonBlockingInitiation ==
    [][\A t \in TxIds :
         /\ (ret'.op = "initiate" /\ ret'.value = t) =>
               /\ t \notin Created
               /\ (t \in active_transactions)'
               /\ (transactions[t].status = PENDING)'
               /\ AllStepsPending(t)'
               /\ invoked'[t] = [i \in 1..5 |-> 0]
               /\ pc'[t] = "scheduled"
               /\ write_failures' = write_failures => Persisted(t)'
         /\ (t \in Created /\ transactions[t].status = PENDING) =>
               /\ invoked'[t] = invoked[t]
               /\ transactions'[t].status \in {PENDING, EXECUTING, CANCELLED}
               /\ transactions'[t].status = EXECUTING =>
                     pc[t] = "scheduled" /\ pc'[t] # "scheduled"]_vars

\* initiate has just returned the id of a second transaction while the
\* first one is executing.
C24_Witness ==
    /\ ret.op = "initiate"
    /\ ret.value \in Created
    /\ pc[ret.value] = "scheduled"
    /\ Persisted(ret.value)
    /\ \E u \in Created : transactions[u].status = EXECUTING /\ pc[u] = "pause"

\* A write of the file failed in this step.
WriteFailed == write_failures' = write_failures + 1

\* C25. Persistence failure policy: when the write of the file fails during
\* initiate, at the end of a batch, at the end of the loop or during cancel,
\* the change made in memory is kept, the call returns its normal result,
\* the loop goes on to its pause or ends, and the file keeps the content it
\* had.
C25_PersistenceFailurePolicy ==
    [][WriteFailed =>
         /\ disk' = disk
         /\ ret'.op = "initiate" =>
               /\ ret'.value \in active_transactions'
               /\ pc'[ret'.value] = "scheduled"
         /\ \A t \in TxIds :
               /\ (ret'.op = "cancel" /\ ret'.args[1] = t) =>
                     /\ ret'.value = TRUE
                     /\ transactions'[t].status = CANCELLED
                     /\ InHistory(t)'
               /\ BatchEnds(t) =>
                     \A i \in InFlight(t) :
                        transactions'[t].steps[i].status \in {COMPLETED, FAILED}
               /\ (pc[t] # "done" /\ pc'[t] = "done") =>
                     /\ transactions'[t].status \in {COMPLETED, FAILED}
                     /\ InHistory(t)']_vars

\* t runs a plan of the caller's own.
IsCustom(t) ==
    t \in Created /\ transactions[t].transaction_type = BATCH_OPERATION

StatusTransitions ==
    { << PENDING, EXECUTING >>, << EXECUTING, COMPLETED >>,
      << EXECUTING, FAILED >>, << PENDING, CANCELLED >>,
      << EXECUTING, CANCELLED >> }

\* C27. Transaction status transitions: a transaction is created PENDING and
\* its status changes only from PENDING to EXECUTING or CANCELLED and from
\* EXECUTING to COMPLETED, FAILED or CANCELLED; completed_at is set when the
\* status becomes COMPLETED and is None in every other status.
C27_StatusTransitions ==
    [][\A t \in TxIds :
         /\ (t \notin Created /\ (t \in Created)') =>
               (transactions[t].status = PENDING)'
         /\ t \in Created =>
               /\ \/ transactions'[t].status = transactions[t].status
                  \/ << transactions[t].status, transactions'[t].status >>
                        \in StatusTransitions
               /\ transactions[t].completed_at # None
                     <=> transactions[t].status = COMPLETED
               /\ transactions'[t].completed_at # None
                     <=> transactions'[t].status = COMPLETED]_vars

\* One transaction completed, its completed_at set, and one cancelled before
\* its task ran, its completed_at None.
C27_Witness ==
    \E t, u \in Created :
        /\ transactions[t].status = COMPLETED
        /\ transactions[t].completed_at = "set"
        /\ transactions[u].status = CANCELLED
        /\ iters[u] = 0
        /\ pc[u] = "done"
        /\ transactions[u].completed_at = None

\* The transfer with an id, active or in the history.
TransferOf(transfer_id) ==
    IF transfer_id \in DOMAIN active_transfers
    THEN active_transfers[transfer_id]
    ELSE CHOOSE transfer \in {transfer_history[i] : i \in DOMAIN transfer_history} :
             transfer.transfer_id = transfer_id

\* The call execute_atomic_swap(swap_id) returns in this step, for a swap of
\* two NFTs between two parties.
SwapExecuted(swap_id) ==
    /\ swap_id \in DOMAIN atomic_swap_pairs
    /\ \E first \in {TransferOf(atomic_swap_pairs[swap_id][1])},
          second \in {TransferOf(atomic_swap_pairs[swap_id][2])} :
           /\ first.nft_token_id # second.nft_token_id
           /\ first.from_address # second.from_address
    /\ ret'.op = "execute_atomic_swap"
    /\ ret'.args = << swap_id >>

\* C28. Atomic swap atomicity: when execute_atomic_swap(swap_id) returns,
\* either both transfers of the swap are completed and each NFT is owned by
\* the address its transfer names as the receiver, or the call changed no
\* ownership record and both transfers are cancelled.
C28_AtomicSwapAtomicity ==
    [][\A swap_id \in SwapIds :
         SwapExecuted(swap_id) =>
             \E first \in {TransferOf(atomic_swap_pairs[swap_id][1])'},
                second \in {TransferOf(atomic_swap_pairs[swap_id][2])'} :
                 \/ /\ first.status = COMPLETED
                    /\ second.status = COMPLETED
                    /\ ownership_records'[first.nft_token_id].current_owner
                           = first.to_address
                    /\ ownership_records'[second.nft_token_id].current_owner
                           = second.to_address
                 \/ /\ first.status = CANCELLED
                    /\ second.status = CANCELLED
                    /\ ownership_records' = ownership_records]_<< ownership_vars, ret >>

\* The entries of the escrow history for an escrow.
EscrowHistoryOf(escrow_id) ==
    { i \in DOMAIN escrow_history : escrow_history[i].escrow_id = escrow_id }

\* The active escrows past their expiry time.
PastExpiry ==
    { id \in DOMAIN active_escrows : current_time > active_escrows[id].expires_at }

\* C29. Escrow expiry: when check_expired_escrows has run, an active escrow
\* that was past its expiry time and CREATED is EXPIRED, and one that was
\* FUNDED is REFUNDED, is no longer among the active escrows and is in the
\* escrow history.
C29_EscrowExpiry ==
    [][ret'.op = "check_expired_escrows" =>
          \A id \in PastExpiry :
              /\ active_escrows[id].status = CREATED =>
                    /\ id \in DOMAIN active_escrows'
                    /\ active_escrows'[id].status = EXPIRED
              /\ active_escrows[id].status = FUNDED =>
                    /\ id \notin DOMAIN active_escrows'
                    /\ \E i \in EscrowHistoryOf(id)' :
                           escrow_history'[i].status = REFUNDED]_<< escrow_vars, ret >>

\* The escrow with an id, active or in the history, and its status (None for
\* an id no escrow has yet).
EscrowOf(escrow_id) ==
    IF escrow_id \in DOMAIN active_escrows
    THEN active_escrows[escrow_id]
    ELSE escrow_history[CHOOSE i \in EscrowHistoryOf(escrow_id) : TRUE]

EscrowStatusOf(escrow_id) ==
    IF escrow_id \in DOMAIN active_escrows \/ EscrowHistoryOf(escrow_id) # {}
    THEN EscrowOf(escrow_id).status
    ELSE None

\* C30. Escrow release safety: an escrow becomes FUNDED only from CREATED, by
\* a fund_escrow call of its buyer with an amount not below escrow_amount; it
\* becomes RELEASED only from FUNDED, in a call that verified an NFT transfer
\* hash; an escrow has at most one entry in the history, RELEASED or
\* REFUNDED, and is then not active; and an entry of the history never
\* changes.
C30_ReleaseSafety ==
    [][/\ \A id \in EscrowIds :
            /\ (EscrowStatusOf(id) # FUNDED /\ EscrowStatusOf(id)' = FUNDED) =>
                  /\ EscrowStatusOf(id) = CREATED
                  /\ ret'.op = "fund_escrow"
                  /\ ret'.args[1] = id
                  /\ ret'.args[2] >= EscrowOf(id).escrow_amount
                  /\ ret'.args[3] = EscrowOf(id).buyer_address
                  /\ EscrowOf(id)'.funded_amount >= EscrowOf(id)'.escrow_amount
            /\ (EscrowStatusOf(id) # RELEASED /\ EscrowStatusOf(id)' = RELEASED) =>
                  /\ EscrowStatusOf(id) = FUNDED
                  /\ EscrowOf(id).funded_amount >= EscrowOf(id).escrow_amount
                  /\ ret'.op = "verify_nft_transfer"
                  /\ ret'.args[1] = id
                  /\ EscrowOf(id)'.verification_hash \in NftTransferHashes
                  /\ Len(EscrowOf(id)'.verification_hash) > 10
            /\ EscrowStatusOf(id)' \in {RELEASED, REFUNDED} <=>
                  EscrowHistoryOf(id)' # {}
            /\ Cardinality(EscrowHistoryOf(id)') <= 1
            /\ EscrowHistoryOf(id)' # {} => id \notin DOMAIN active_escrows'
       /\ \A i \in DOMAIN escrow_history :
            /\ i \in DOMAIN escrow_history'
            /\ escrow_history'[i] = escrow_history[i]]_<< escrow_vars, ret >>

\* One escrow was released and another refunded.
C30_Witness ==
    \E i, j \in DOMAIN escrow_history :
        /\ escrow_history[i].status = RELEASED
        /\ escrow_history[i].funded_amount >= escrow_history[i].escrow_amount
        /\ escrow_history[j].status = REFUNDED

====
